---- MODULE Spec2Model ----
(***************************************************************************)
(* HexEditorProvider (src/src/hexEditorProvider.ts): the custom editor     *)
(* provider of the hex editor.  It opens HexDocuments, wires webview       *)
(* panels to them, answers `ready` / `open-anyways` / `edit` messages and  *)
(* asks a panel for the current bytes with a request/response message.     *)
(*                                                                         *)
(* HexDocument (./hexDocument) and WebviewCollection (./webViewCollection) *)
(* are imported by the provider but their code is not in src/; the parts   *)
(* the provider calls are modelled from spec.md (sections 3, 4.1, 4.2).    *)
(***************************************************************************)
EXTENDS Naturals, Sequences, FiniteSets

\* ---------------------------------------------------------------- bounds

\* Documents the host may open and webview panels it may attach.
Docs == {"d1", "d2"}
Views == {"v1", "v2"}

\* Largest resource, in bytes.
MaxFileSize == 3
\* Requests postMessageWithResponse may issue in one run.
MaxRequests == 2
\* postMessage calls recorded, over all panels.
MaxOutbox == 2

\* Safe-load threshold of HexDocument.create, scaled down.
Threshold == 2

\* Sizes of the resources on disk: exactly at the threshold, and above it.
FileSizes == {Threshold, MaxFileSize}

\* The resources the runs start from: d1 of either size, d2 at the threshold.
Resources == {f \in [Docs -> FileSizes] : f["d2"] = Threshold}

\* Bodies a view may put in a response ({data: number[]}), and edit payloads.
Bodies == {<<>>, <<7>>}
Payloads == {"p1", "p2"}

\* Request ids a view may answer with: every id that can be issued, and one more.
ResponseIds == 1..(MaxRequests + 1)

NoDoc == "nodoc"
Undefined == "undefined"

\* The listener openCustomDocument registers: () => disposeAll(listeners).
DisposeAllListeners == "disposeAll(listeners)"

\* The state of the promise postMessageWithResponse returns.
Pending == [state |-> "pending", value |-> <<>>]
Resolved(body) == [state |-> "resolved", value |-> body]

\* ----------------------------------------------------------------- state

VARIABLES
    resourceSize,       \* [Docs -> Nat]: true size of the resource behind each uri
    documents,          \* set of Docs for which openCustomDocument has returned
    filesize,           \* HexDocument.filesize
    documentData,       \* HexDocument.documentData (the content buffer)
    openedFully,        \* HexDocument: whether the content is the whole resource
    disposed,           \* HexDocument: whether dispose() has run
    onDidDispose,       \* HexDocument: the disposal listeners registered and not yet invoked
    disposeAllCalls,    \* [Docs -> Nat]: runs of the listener openCustomDocument registers
    webviews,           \* WebviewCollection: entries [resource, webviewPanel] in add order
    panelState,         \* [Views -> {"none", "live", "disposed"}]
    panelDoc,           \* [Views -> Docs \cup {NoDoc}]: document captured by the panel's handlers
    outbox,             \* [Views -> Seq(message)]: panel.webview.postMessage calls, in order
    loading,            \* [Views -> Nat]: open-anyways handlers suspended at await openAnyways()
    _requestId,         \* HexEditorProvider._requestId
    _callbacks,         \* keys of HexEditorProvider._callbacks
    promises,           \* [issued id -> Pending or Resolved(body)]
    getFileDataError,   \* what the latest getFileData call threw, or Undefined
    notice,             \* text of the latest showInformationMessage call, or Undefined
    lastResponseId      \* requestId of the latest response message received, or 0

vars == <<resourceSize, documents, filesize, documentData, openedFully, disposed,
          onDidDispose, disposeAllCalls, webviews, panelState, panelDoc, outbox, loading, _requestId, _callbacks,
          promises, getFileDataError, notice, lastResponseId>>

docVars == <<resourceSize, documents, filesize, documentData, openedFully, disposed,
            onDidDispose, disposeAllCalls>>
viewVars == <<webviews, panelState, panelDoc>>
brokerVars == <<_requestId, _callbacks, promises>>

\* --------------------------------------------------------------- helpers

Min(a, b) == IF a <= b THEN a ELSE b

\* The resource behind uri d: resourceSize[d] bytes, byte i of d1 is i, of d2 is i + 10.
ResourceBytes(d) ==
    [i \in 1..resourceSize[d] |-> IF d = "d1" THEN i ELSE i + 10]

\* The text onMessage passes to vscode.window.showInformationMessage.
ReadonlyNotice == "This editor is currently readonly."

\* The message of the Error the delegate's getFileData throws.
NoWebviewError == "Could not find webview to save for"

\* this.getBodyHTML(): a fixed, non-empty markup string.
getBodyHTML == "bodyHTML"

\* A message handed to panel.webview.postMessage.  requestId 0: the field is absent.
Message(type, requestId, fileSize, value, html) ==
    [type |-> type, requestId |-> requestId, fileSize |-> fileSize,
     value |-> value, html |-> html]

\* ------------------------------------------------ HexDocument (spec.md 4.1)

\* HexDocument.create(uri, backupId, delegate): filesize is the resource's true
\* size; the content is what a read bounded by the threshold returns.
HexDocumentCreate(d) ==
    [filesize     |-> resourceSize[d],
     documentData |-> SubSeq(ResourceBytes(d), 1, Min(resourceSize[d], Threshold)),
     openedFully  |-> resourceSize[d] <= Threshold]

\* An openAnyways that appends what it reads to the buffer, on every call.
openAnyways_append(d) ==
    [documentData |-> documentData[d] \o ResourceBytes(d), openedFully |-> TRUE]

\* document.openAnyways(): re-reads the resource without the threshold; a no-op
\* when the document is already fully open.
openAnyways(d) ==
    IF openedFully[d]
    THEN [documentData |-> documentData[d], openedFully |-> TRUE]
    ELSE [documentData |-> ResourceBytes(d), openedFully |-> TRUE]

\* A dispose that runs the listeners on every call.
HexDocumentDispose_everyCall(d) ==
    [disposed |-> TRUE, invoked |-> {DisposeAllListeners}, onDidDispose |-> {}]

\* document.dispose(): the first call sets disposed, invokes every registered
\* listener once and clears the listener set; later calls do nothing.
HexDocumentDispose(d) ==
    IF disposed[d]
    THEN [disposed |-> TRUE, invoked |-> {}, onDidDispose |-> onDidDispose[d]]
    ELSE [disposed |-> TRUE, invoked |-> onDidDispose[d], onDidDispose |-> {}]

\* ------------------------------------------ WebviewCollection (spec.md 4.2)

\* webviews.add(uri, webviewPanel)
WebviewsAdd(d, v) == Append(webviews, [resource |-> d, webviewPanel |-> v])

\* A collection that keeps the entry of a disposed panel.
WebviewsRemove_never(v) == webviews

\* A collection that drops every panel of the document of the disposed panel.
WebviewsRemove_wholeDocument(v) ==
    SelectSeq(webviews, LAMBDA e : e.resource # panelDoc[v])

\* The entry of a panel leaves the collection when the panel is disposed.
WebviewsRemove(v) == SelectSeq(webviews, LAMBDA e : e.webviewPanel # v)

\* webviews.get(uri): the panels registered for uri, in registration order.
WebviewsGet(d) ==
    LET entries == SelectSeq(webviews, LAMBDA e : e.resource = d)
    IN  [i \in 1..Len(entries) |-> entries[i].webviewPanel]

\* ------------------------------------------------------ HexEditorProvider

\* postMessage(panel, type, body): one more message handed to the panel.
postMessage(v, msg) == outbox' = [outbox EXCEPT ![v] = Append(@, msg)]

\* Messages posted to the panels so far, counting the init each suspended
\* open-anyways handler will still post.
Posted ==
    Cardinality({<<v, i>> \in Views \X (1..MaxOutbox) :
                    i <= Len(outbox[v]) + loading[v]})

\* Room left in the bounded record of posted messages.
Room == Posted < MaxOutbox

\* A ready init whose fileSize is the length of the content read so far.
ReadyInit_sizeOfContent(d) ==
    Message("init", 0, Len(documentData[d]), documentData[d], getBodyHTML)

\* A ready init that always carries html.
ReadyInit_alwaysHtml(d) ==
    Message("init", 0, filesize[d], documentData[d], getBodyHTML)

\* The init message of the ready handler.
ReadyInit(d) ==
    Message("init", 0, filesize[d], documentData[d],
            IF Len(documentData[d]) = filesize[d] THEN getBodyHTML ELSE Undefined)

\* An open-anyways init built from the document as it was before the load.
OpenAnywaysInit_stale(d) ==
    Message("init", 0, filesize[d], documentData[d], getBodyHTML)

\* The init message of the open-anyways handler, built after openAnyways().
OpenAnywaysInit(d) ==
    Message("init", 0, filesize'[d], documentData'[d], getBodyHTML)

\* A postMessageWithResponse that reads _requestId without advancing it.
postMessageWithResponse_noIncrement(v, type) ==
    LET requestId == _requestId
    IN  /\ _requestId' = _requestId
        /\ _callbacks' = _callbacks \cup {requestId}
        /\ promises' = [i \in 1..requestId |-> Pending]
        /\ postMessage(v, Message(type, requestId, 0, <<>>, Undefined))

\* A postMessageWithResponse whose new entry replaces the entries already in
\* _callbacks.
postMessageWithResponse_replaces(v, type) ==
    LET requestId == _requestId
    IN  /\ _requestId' = _requestId + 1
        /\ _callbacks' = {requestId}
        /\ promises' = Append(promises, Pending)
        /\ postMessage(v, Message(type, requestId, 0, <<>>, Undefined))

\* postMessageWithResponse(panel, 'getFileData', {}): takes the next id, records
\* the resolver of a new promise and posts the request.
postMessageWithResponse(v, type) ==
    LET requestId == _requestId
    IN  /\ _requestId' = _requestId + 1
        /\ _callbacks' = _callbacks \cup {requestId}
        /\ promises' = Append(promises, Pending)
        /\ postMessage(v, Message(type, requestId, 0, <<>>, Undefined))

\* An onMessage whose edit case also writes the edit into the document.
onMessage_applyEdit(d, message) ==
    /\ notice' = IF message.type = "edit" THEN ReadonlyNotice ELSE notice
    /\ documentData' = IF message.type = "edit"
                       THEN [documentData EXCEPT ![d] = Append(@, 0)]
                       ELSE documentData
    /\ UNCHANGED <<resourceSize, documents, filesize, openedFully, disposed,
                   onDidDispose, disposeAllCalls>>
    /\ UNCHANGED brokerVars

\* An onMessage that answers a message bearing a requestId by resolving the
\* oldest entry of _callbacks, whatever id the message bears.
onMessage_resolvesOldest(d, message) ==
    /\ notice' = IF message.type = "edit" THEN ReadonlyNotice ELSE notice
    /\ UNCHANGED docVars
    /\ IF message.requestId # 0 /\ _callbacks # {}
       THEN LET oldest == CHOOSE id \in _callbacks : \A other \in _callbacks : id <= other
            IN  /\ _callbacks' = _callbacks \ {oldest}
                /\ promises' = [promises EXCEPT ![oldest] = Resolved(message.body)]
                /\ UNCHANGED _requestId
       ELSE UNCHANGED brokerVars

\* onMessage(document, message): only `edit` has a case; it shows the read-only
\* notice.  The document and the request bookkeeping are not touched.
onMessage(d, message) ==
    /\ notice' = IF message.type = "edit" THEN ReadonlyNotice ELSE notice
    /\ UNCHANGED docVars
    /\ UNCHANGED brokerVars

\* A ready listener without the test of the message type.
readyListener_anyType(v, message) ==
    postMessage(v, ReadyInit(panelDoc[v]))

\* The second listener of resolveCustomEditor: answers `ready` with init.
readyListener(v, message) ==
    IF message.type = "ready"
    THEN postMessage(v, ReadyInit(panelDoc[v]))
    ELSE UNCHANGED outbox

\* The third listener, up to its await: `open-anyways` starts the full load.
openAnywaysListener(v, message) ==
    IF message.type = "open-anyways"
    THEN loading' = [loading EXCEPT ![v] = @ + 1]
    ELSE UNCHANGED loading

\* A delivery of messages that waits until no request is outstanding.
onDidReceiveMessage_blocking(v, message) ==
    /\ panelState[v] = "live"
    /\ _callbacks = {}
    /\ onMessage(panelDoc[v], message)
    /\ readyListener(v, message)
    /\ openAnywaysListener(v, message)
    /\ UNCHANGED <<viewVars, getFileDataError>>

\* A message from the webview of a live panel: every listener registered by
\* resolveCustomEditor runs on it, in registration order.
onDidReceiveMessage(v, message) ==
    /\ panelState[v] = "live"
    /\ onMessage(panelDoc[v], message)
    /\ readyListener(v, message)
    /\ openAnywaysListener(v, message)
    /\ UNCHANGED <<viewVars, getFileDataError>>

\* An incoming message; requestId 0 and type Undefined: the field is absent.
Incoming(type, requestId, body) ==
    [type |-> type, requestId |-> requestId, body |-> body]

\* ---------------------------------------------------------------- actions

Init ==
    /\ resourceSize \in Resources
    /\ documents = {}
    /\ filesize = [d \in Docs |-> 0]
    /\ documentData = [d \in Docs |-> <<>>]
    /\ openedFully = [d \in Docs |-> FALSE]
    /\ disposed = [d \in Docs |-> FALSE]
    /\ onDidDispose = [d \in Docs |-> {}]
    /\ disposeAllCalls = [d \in Docs |-> 0]
    /\ webviews = <<>>
    /\ panelState = [v \in Views |-> "none"]
    /\ panelDoc = [v \in Views |-> NoDoc]
    /\ outbox = [v \in Views |-> <<>>]
    /\ loading = [v \in Views |-> 0]
    /\ _requestId = 1
    /\ _callbacks = {}
    /\ promises = <<>>
    /\ getFileDataError = Undefined
    /\ notice = Undefined
    /\ lastResponseId = 0

\* openCustomDocument(uri, ...): creates the HexDocument of uri and registers
\* the disposal listener that disposes the (empty) list of edit listeners.
OpenCustomDocument(d) ==
    /\ d \notin documents
    /\ documents' = documents \cup {d}
    /\ filesize' = [filesize EXCEPT ![d] = HexDocumentCreate(d).filesize]
    /\ documentData' = [documentData EXCEPT ![d] = HexDocumentCreate(d).documentData]
    /\ openedFully' = [openedFully EXCEPT ![d] = HexDocumentCreate(d).openedFully]
    /\ onDidDispose' = [onDidDispose EXCEPT ![d] = @ \cup {DisposeAllListeners}]
    /\ UNCHANGED <<resourceSize, disposed, disposeAllCalls, viewVars, outbox, loading, brokerVars,
                   getFileDataError, notice, lastResponseId>>

\* resolveCustomEditor(document, webviewPanel, ...): registers the panel and
\* its three message listeners; nothing is posted to the webview.
\* A resolveCustomEditor that posts init as soon as the panel is set up.
ResolveCustomEditor_sendsInit(d, v) ==
    /\ d \in documents
    /\ ~disposed[d]
    /\ panelState[v] = "none"
    /\ Room
    /\ webviews' = WebviewsAdd(d, v)
    /\ panelState' = [panelState EXCEPT ![v] = "live"]
    /\ panelDoc' = [panelDoc EXCEPT ![v] = d]
    /\ postMessage(v, ReadyInit(d))
    /\ UNCHANGED <<docVars, loading, brokerVars, getFileDataError,
                   notice, lastResponseId>>

\* The provider is registered with supportsMultipleEditorsPerDocument false,
\* but the method itself takes any number of panels for one document, and so
\* does this action.
ResolveCustomEditor(d, v) ==
    /\ d \in documents
    /\ ~disposed[d]
    /\ panelState[v] = "none"
    /\ webviews' = WebviewsAdd(d, v)
    /\ panelState' = [panelState EXCEPT ![v] = "live"]
    /\ panelDoc' = [panelDoc EXCEPT ![v] = d]
    /\ UNCHANGED <<docVars, outbox, loading, brokerVars, getFileDataError,
                   notice, lastResponseId>>

\* A getFileData without the test for an empty list of panels: the request is
\* set up before the missing panel is dereferenced.
GetFileData_noCheck(d) ==
    LET webviewsForDocument == WebviewsGet(d)
    IN  /\ d \in documents
        /\ _requestId <= MaxRequests
        /\ Room
        /\ _requestId' = _requestId + 1
        /\ _callbacks' = _callbacks \cup {_requestId}
        /\ promises' = Append(promises, Pending)
        /\ IF Len(webviewsForDocument) = 0
           THEN /\ getFileDataError' = "TypeError"
                /\ UNCHANGED outbox
           ELSE /\ getFileDataError' = Undefined
                /\ postMessage(webviewsForDocument[1],
                               Message("getFileData", _requestId, 0, <<>>, Undefined))
        /\ UNCHANGED <<docVars, viewVars, loading, notice, lastResponseId>>

\* A getFileData that asks the panel registered last for the document.
GetFileData_lastPanel(d) ==
    LET webviewsForDocument == WebviewsGet(d)
    IN  /\ d \in documents
        /\ IF Len(webviewsForDocument) = 0
           THEN /\ getFileDataError' = NoWebviewError
                /\ UNCHANGED <<brokerVars, outbox>>
           ELSE LET panel == webviewsForDocument[Len(webviewsForDocument)]
                IN  /\ _requestId <= MaxRequests
                    /\ Room
                    /\ postMessageWithResponse(panel, "getFileData")
                    /\ getFileDataError' = Undefined
        /\ UNCHANGED <<docVars, viewVars, loading, notice, lastResponseId>>

\* The delegate's getFileData of document d (the bytes query).
GetFileData(d) ==
    LET webviewsForDocument == WebviewsGet(d)
    IN  /\ d \in documents
        /\ IF Len(webviewsForDocument) = 0
           THEN /\ getFileDataError' = NoWebviewError
                /\ UNCHANGED <<brokerVars, outbox>>
           ELSE LET panel == webviewsForDocument[1]
                IN  /\ _requestId <= MaxRequests
                    /\ Room
                    /\ postMessageWithResponse(panel, "getFileData")
                    /\ getFileDataError' = Undefined
        /\ UNCHANGED <<docVars, viewVars, loading, notice, lastResponseId>>

\* The webview of v posts `ready`.
RecvReady(v) ==
    /\ Room
    /\ onDidReceiveMessage(v, Incoming("ready", 0, <<>>))
    /\ UNCHANGED lastResponseId

\* The webview of v posts `open-anyways`.
RecvOpenAnyways(v) ==
    /\ Room
    /\ onDidReceiveMessage(v, Incoming("open-anyways", 0, <<>>))
    /\ UNCHANGED lastResponseId

\* The webview of v posts `edit` with some payload.
RecvEdit(v, payload) ==
    /\ onDidReceiveMessage(v, Incoming("edit", 0, payload))
    /\ UNCHANGED lastResponseId

\* The webview of v posts a response {requestId, body}; it has no type.
RecvResponse(v, requestId, body) ==
    /\ onDidReceiveMessage(v, Incoming(Undefined, requestId, body))
    /\ lastResponseId' = requestId

\* The open-anyways handler of v resumes after await document.openAnyways():
\* the document holds the result of the load and init is posted to the panel.
OpenAnywaysResume(v) ==
    LET d == panelDoc[v]
    IN  /\ loading[v] > 0
        /\ loading' = [loading EXCEPT ![v] = @ - 1]
        /\ documentData' = [documentData EXCEPT ![d] = openAnyways(d).documentData]
        /\ openedFully' = [openedFully EXCEPT ![d] = openAnyways(d).openedFully]
        /\ UNCHANGED <<resourceSize, documents, filesize, disposed, onDidDispose,
                       disposeAllCalls>>
        /\ postMessage(v, OpenAnywaysInit(d))
        /\ UNCHANGED <<viewVars, brokerVars, getFileDataError, notice, lastResponseId>>

\* The host closes the panel v: its entry leaves the collection.
DisposePanel(v) ==
    /\ panelState[v] = "live"
    /\ panelState' = [panelState EXCEPT ![v] = "disposed"]
    /\ webviews' = WebviewsRemove(v)
    /\ UNCHANGED <<docVars, panelDoc, outbox, loading, brokerVars,
                   getFileDataError, notice, lastResponseId>>

\* The host calls dispose() on document d: first once none of its editors is
\* left, and possibly again later.
DisposeDocument(d) ==
    /\ d \in documents
    /\ disposed[d] \/ Len(WebviewsGet(d)) = 0
    /\ disposed' = [disposed EXCEPT ![d] = HexDocumentDispose(d).disposed]
    /\ onDidDispose' = [onDidDispose EXCEPT ![d] = HexDocumentDispose(d).onDidDispose]
    /\ disposeAllCalls' =
           [disposeAllCalls EXCEPT
               ![d] = IF DisposeAllListeners \in HexDocumentDispose(d).invoked
                      THEN @ + 1 ELSE @]
    /\ UNCHANGED <<resourceSize, documents, filesize, documentData, openedFully,
                   viewVars, outbox, loading, brokerVars, getFileDataError,
                   notice, lastResponseId>>

Next ==
    \/ \E d \in Docs : OpenCustomDocument(d)
    \/ \E d \in Docs, v \in Views : ResolveCustomEditor(d, v)
    \/ \E d \in Docs : GetFileData(d)
    \/ \E v \in Views : RecvReady(v)
    \/ \E v \in Views : RecvOpenAnyways(v)
    \/ \E v \in Views, payload \in Payloads : RecvEdit(v, payload)
    \/ \E v \in Views, requestId \in ResponseIds, body \in Bodies :
           RecvResponse(v, requestId, body)
    \/ \E v \in Views : OpenAnywaysResume(v)
    \/ \E v \in Views : DisposePanel(v)
    \/ \E d \in Docs : DisposeDocument(d)

Spec == Init /\ [][Next]_vars

\* Type correctness of the model's state.
TypeOK ==
    /\ resourceSize \in [Docs -> FileSizes]
    /\ documents \subseteq Docs
    /\ \A d \in Docs : filesize[d] \in 0..MaxFileSize /\ Len(documentData[d]) <= MaxFileSize
    /\ \A v \in Views : panelState[v] \in {"none", "live", "disposed"}
    /\ Posted <= MaxOutbox
    /\ _requestId \in 1..(MaxRequests + 1)
    /\ Len(promises) = _requestId - 1
    /\ notice \in {Undefined, ReadonlyNotice}

\* ----------------------------------------------------------------- claims

Last(s) == s[Len(s)]

\* The request messages posted so far, as <<panel, position>> pairs.
RequestsPosted ==
    {<<v, i>> \in Views \X (1..MaxOutbox) :
        i <= Len(outbox[v]) /\ outbox[v][i].requestId # 0}

\* C1: when a view's message carries the requestId of a still-pending request,
\* that request's promise is resolved with the message's body and its entry
\* leaves _callbacks.
C1_ResponseResolvesPending ==
    [][\A v \in Views, id \in ResponseIds, body \in Bodies :
          (id \in _callbacks /\ RecvResponse(v, id, body))
              => (promises'[id] = Resolved(body) /\ id \notin _callbacks')]_vars

\* C2: a response that overtakes the response of an earlier, still outstanding
\* request resolves the request bearing its own id with its own body, and no
\* other request.
C2_OutOfOrderResolvesOwn ==
    [][\A v \in Views, id \in ResponseIds, body \in Bodies :
          (/\ id \in _callbacks
           /\ RecvResponse(v, id, body)
           /\ \E earlier \in _callbacks : earlier < id /\ promises[earlier] = Pending)
              => (/\ promises'[id] = Resolved(body)
                  /\ \A other \in DOMAIN promises \ {id} :
                         promises'[other] = promises[other])]_vars

\* C3: the request ids posted so far are exactly 1, 2, ..., _requestId - 1, each
\* on one request message only, and in each panel's messages they increase in
\* posting order: ids start at 1, grow strictly and are never used twice.
C3_RequestIdsUnique ==
    /\ {outbox[r[1]][r[2]].requestId : r \in RequestsPosted} = 1..(_requestId - 1)
    /\ \A r1, r2 \in RequestsPosted :
           outbox[r1[1]][r1[2]].requestId = outbox[r2[1]][r2[2]].requestId => r1 = r2
    /\ \A r1, r2 \in RequestsPosted :
           (r1[1] = r2[1] /\ r1[2] < r2[2])
               => outbox[r1[1]][r1[2]].requestId < outbox[r2[1]][r2[2]].requestId
    /\ \A id \in _callbacks : id < _requestId

\* C3 witness: two requests went to different panels, for different documents,
\* and a response to the first has already arrived.
C3_Witness ==
    /\ _requestId = 3
    /\ lastResponseId = 1
    /\ \E r1, r2 \in RequestsPosted :
           /\ r1[1] # r2[1]
           /\ panelDoc[r1[1]] # panelDoc[r2[1]]

\* Whether message m is an init that carries html.
HasHtml(m) == m.html # Undefined

\* C4: a `ready` from a view posts exactly one message to that view, an init
\* with fileSize = document.filesize and value = the document's content; html is
\* present exactly when content.length = filesize.
C4_ReadyInit ==
    [][\A v \in Views :
          RecvReady(v) =>
              LET d == panelDoc[v]
                  m == Last(outbox'[v])
              IN  /\ outbox' = [outbox EXCEPT ![v] = Append(@, m)]
                  /\ m.type = "init"
                  /\ m.fileSize = filesize[d]
                  /\ m.value = documentData[d]
                  /\ HasHtml(m) <=> (Len(documentData[d]) = filesize[d])]_vars

\* C4 witness: a panel of a truncated document holds an init without html, and
\* a panel of a document at the threshold holds an init with html.
C4_Witness ==
    \E v, w \in Views :
        /\ outbox[v] # <<>> /\ outbox[w] # <<>>
        /\ Last(outbox[v]).type = "init" /\ ~HasHtml(Last(outbox[v]))
        /\ Len(Last(outbox[v]).value) < Last(outbox[v]).fileSize
        /\ Last(outbox[w]).type = "init" /\ HasHtml(Last(outbox[w]))
        /\ resourceSize[panelDoc[w]] = Threshold

\* C5: an `open-anyways` posts nothing when it arrives; the init is posted when
\* openAnyways() has completed, always with html, and at that moment the
\* content has the length filesize and openedFully is true.
C5_OpenAnywaysInit ==
    [][\A v \in Views :
          /\ RecvOpenAnyways(v) =>
                 (outbox' = outbox /\ loading'[v] = loading[v] + 1)
          /\ OpenAnywaysResume(v) =>
                 LET d == panelDoc[v]
                     m == Last(outbox'[v])
                 IN  /\ outbox' = [outbox EXCEPT ![v] = Append(@, m)]
                     /\ m.type = "init"
                     /\ HasHtml(m)
                     /\ m.fileSize = filesize'[d]
                     /\ m.value = documentData'[d]
                     /\ Len(documentData'[d]) = filesize'[d]
                     /\ openedFully'[d]]_vars

\* C5 witness: the panel of a resource above the threshold got an init without
\* html and then, after open-anyways, an init with html and the whole content.
C5_Witness ==
    \E v \in Views :
        /\ Len(outbox[v]) = 2
        /\ outbox[v][1].type = "init" /\ ~HasHtml(outbox[v][1])
        /\ outbox[v][2].type = "init" /\ HasHtml(outbox[v][2])
        /\ Len(outbox[v][2].value) = MaxFileSize
        /\ openedFully[panelDoc[v]]
        /\ loading[v] = 0

\* C6: getFileData on a document with no panel in the collection throws the
\* "Could not find webview" error and takes no request id, records no callback
\* and posts nothing.
C6_NoLiveView ==
    [][\A d \in Docs :
          (GetFileData(d) /\ Len(WebviewsGet(d)) = 0)
              => (/\ getFileDataError' = NoWebviewError
                  /\ UNCHANGED <<_requestId, _callbacks, promises, outbox>>)]_vars

\* C6 witness: the query has thrown for a document without panels while another
\* document has a live panel, and no request id has been taken.
C6_Witness ==
    /\ getFileDataError = NoWebviewError
    /\ _requestId = 1
    /\ \E d \in documents : Len(WebviewsGet(d)) = 0
    /\ \E v \in Views : panelState[v] = "live"
    /\ \A v \in Views : outbox[v] = <<>>

\* C7: every document keeps the filesize fixed at its creation, the true size
\* of its resource, and its content is never longer than filesize.
C7_ContentWithinFilesize ==
    \A d \in documents :
        /\ filesize[d] = resourceSize[d]
        /\ 0 <= Len(documentData[d])
        /\ Len(documentData[d]) <= filesize[d]

\* C7 witness: a document above the threshold was loaded fully, got an edit
\* and was disposed after its panel closed.
C7_Witness ==
    \E d \in documents :
        /\ resourceSize[d] > Threshold
        /\ Len(documentData[d]) = filesize[d]
        /\ disposed[d]
        /\ notice = ReadonlyNotice
        /\ \E v \in Views : panelDoc[v] = d /\ panelState[v] = "disposed"

\* C8: every completed open-anyways leaves the content equal to the whole
\* resource and openedFully true, however many came before or are still in
\* flight; once openedFully is true, no step changes it or the content.
C8_OpenAnywaysIdempotent ==
    [][/\ \A v \in Views :
              OpenAnywaysResume(v) =>
                  /\ documentData'[panelDoc[v]] = ResourceBytes(panelDoc[v])
                  /\ openedFully'[panelDoc[v]]
       /\ \A d \in documents :
              openedFully[d] =>
                  (openedFully'[d] /\ documentData'[d] = documentData[d])]_vars

\* C8 witness: a resource above the threshold is fully loaded by one completed
\* open-anyways while a second one, from another panel, is still in flight.
C8_Witness ==
    \E v, w \in Views :
        /\ v # w
        /\ panelDoc[v] \in documents
        /\ panelDoc[v] = panelDoc[w]
        /\ resourceSize[panelDoc[v]] > Threshold
        /\ openedFully[panelDoc[v]]
        /\ outbox[v] # <<>> /\ HasHtml(Last(outbox[v]))
        /\ loading[w] = 1

\* C9: an `edit` with any payload shows the read-only notice and changes
\* nothing else: not the documents, the panels, the collection, the pending
\* requests, and nothing is posted to any panel.
C9_EditRejected ==
    [][\A v \in Views, payload \in Payloads :
          RecvEdit(v, payload)
              => (/\ notice' = ReadonlyNotice
                  /\ UNCHANGED <<docVars, viewVars, brokerVars, outbox,
                                 loading>>)]_vars

\* C9 witness: the notice is shown while a truncated document has a live panel
\* and a request is outstanding.
C9_Witness ==
    /\ notice = ReadonlyNotice
    /\ _callbacks # {}
    /\ \E v \in Views :
           /\ panelState[v] = "live"
           /\ Len(documentData[panelDoc[v]]) < filesize[panelDoc[v]]

\* C10: a response whose requestId has no entry in _callbacks changes nothing
\* and throws nothing; no step that changes _requestId, _callbacks or a promise
\* is the receipt of a message without requestId (ready, open-anyways, edit).
C10_StaleOrUntyped ==
    [][\A v \in Views :
          /\ \A id \in ResponseIds :
                 (/\ id \notin _callbacks
                  /\ lastResponseId' = id
                  /\ \E body \in Bodies : RecvResponse(v, id, body))
                     => UNCHANGED <<docVars, viewVars, brokerVars, outbox, loading,
                                    notice, getFileDataError>>
          /\ ~(UNCHANGED brokerVars)
                 => ~(RecvReady(v) \/ RecvOpenAnyways(v)
                          \/ \E payload \in Payloads : RecvEdit(v, payload))]_vars

\* C10 witness: a response bearing an id that was never issued has arrived
\* while a request is outstanding.
C10_Witness ==
    /\ lastResponseId >= _requestId
    /\ _callbacks # {}

\* Whether message m is a request (it carries a requestId).
IsRequest(m) == m.requestId # 0

\* C11: after any step, webviews.get returns no disposed panel for any
\* document, and a getFileData call posts nothing to a disposed panel.
C11_DisposedNeverReturned ==
    [][/\ \A d \in Docs :
              \A i \in 1..Len(WebviewsGet(d)') :
                  panelState'[WebviewsGet(d)'[i]] = "live"
       /\ \A d \in Docs :
              GetFileData(d) =>
                  \A v \in Views :
                      panelState[v] = "disposed" => outbox'[v] = outbox[v]]_vars

\* C11 witness: the panel that got request 1 is disposed, and request 2 of the
\* same document went to its other panel, so it was issued after the disposal.
C11_Witness ==
    \E v, w \in Views :
        /\ panelState[v] = "disposed" /\ panelState[w] = "live"
        /\ panelDoc[v] = panelDoc[w]
        /\ Len(outbox[v]) = 1 /\ outbox[v][1].requestId = 1
        /\ Len(outbox[w]) = 1 /\ outbox[w][1].requestId = 2

\* C12: when a panel is disposed before the response to a request posted to it
\* has arrived, the promise of that request is rejected.
C12_DanglingRejected ==
    [][\A v \in Views :
          DisposePanel(v) =>
              \A id \in DOMAIN promises :
                  (/\ promises[id] = Pending
                   /\ \E i \in 1..Len(outbox[v]) : outbox[v][i].requestId = id)
                      => promises'[id].state = "rejected"]_vars

\* C13: disposed never reverts, and the listener openCustomDocument registers
\* has run exactly once for a disposed document and never for another one,
\* however often dispose() is called.
C13_DisposeIdempotent ==
    [][\A d \in Docs :
          /\ disposed[d] => disposed'[d]
          /\ DisposeDocument(d) => disposed'[d]
          /\ disposeAllCalls'[d] = IF disposed'[d] THEN 1 ELSE 0
          /\ disposed'[d] => onDidDispose'[d] = {}]_vars

\* C13 witness: a document is disposed, its listener has run once, and
\* dispose() can be called on it again.
C13_Witness ==
    \E d \in documents :
        /\ disposed[d]
        /\ disposeAllCalls[d] = 1
        /\ onDidDispose[d] = {}
        /\ ENABLED DisposeDocument(d)

\* C14: disposing a panel makes that panel alone disposed: the document's
\* content, filesize, openedFully and disposed flag are unchanged, the document
\* stays open, and every other panel keeps its state, its registration, its
\* messages and its pending load.
C14_DisposeOnlyThatView ==
    [][\A v \in Views :
          DisposePanel(v) =>
              /\ panelState'[v] = "disposed"
              /\ UNCHANGED <<documents, filesize, documentData, openedFully, disposed>>
              /\ panelDoc[v] \in documents' /\ ~disposed'[panelDoc[v]]
              /\ \A w \in Views \ {v} :
                    /\ panelState'[w] = panelState[w]
                    /\ panelDoc'[w] = panelDoc[w]
                    /\ outbox'[w] = outbox[w]
                    /\ loading'[w] = loading[w]
                    /\ \A d \in Docs :
                          (\E i \in 1..Len(WebviewsGet(d)) : WebviewsGet(d)[i] = w)
                              <=> (\E i \in 1..Len(WebviewsGet(d)') : WebviewsGet(d)'[i] = w)]_vars

\* C14 witness: a panel of a document is disposed while another panel of the
\* same document is live, registered and has been sent init, and the document
\* is open.
C14_Witness ==
    \E v, w \in Views :
        /\ panelState[v] = "disposed" /\ panelState[w] = "live"
        /\ panelDoc[v] = panelDoc[w]
        /\ panelDoc[v] \in documents /\ ~disposed[panelDoc[v]]
        /\ WebviewsGet(panelDoc[w]) = <<w>>
        /\ \E i \in 1..Len(outbox[w]) : outbox[w][i].type = "init"

\* C15: an entry enters _callbacks only in a getFileData, with the id that
\* call takes; an entry leaves _callbacks, or its promise changes, only in a step
\* that receives a response bearing its id.  Disposals, ready, open-anyways,
\* edit, other requests and other responses leave it as it is.
C15_PendingOnlyByRequestAndResponse ==
    [][/\ ~(UNCHANGED brokerVars) =>
              \/ \E d \in Docs : GetFileData(d)
              \/ \E v \in Views, body \in Bodies :
                     RecvResponse(v, lastResponseId', body)
       /\ \A id \in _callbacks' \ _callbacks :
              /\ id = _requestId
              /\ promises'[id] = Pending
              /\ \E d \in Docs : GetFileData(d)
       /\ \A id \in _callbacks :
              (id \notin _callbacks' \/ promises'[id] # promises[id]) =>
                  /\ lastResponseId' = id
                  /\ \E v \in Views, body \in Bodies : RecvResponse(v, id, body)]_vars

\* C15 witness: the panel a request was posted to is disposed, a further
\* request has been made since, and the first request is still pending.
C15_Witness ==
    \E v \in Views :
        /\ panelState[v] = "disposed"
        /\ \E i \in 1..Len(outbox[v]) : outbox[v][i].requestId = 1
        /\ 1 \in _callbacks /\ promises[1] = Pending
        /\ 2 \in _callbacks

\* The panel registered earliest for document d among the entries of webviews.
FirstRegistered(d) ==
    CHOOSE v \in Views :
        \E i \in 1..Len(webviews) :
            /\ webviews[i] = [resource |-> d, webviewPanel |-> v]
            /\ \A j \in 1..(i - 1) : webviews[j].resource # d

\* C16: a getFileData on a document with a registered panel posts exactly one
\* getFileData request, to the panel registered first for that document, takes
\* exactly one request id and posts nothing to any other panel.
C16_QueryConsultsFirstView ==
    [][\A d \in Docs :
          (/\ \E i \in 1..Len(webviews) : webviews[i].resource = d
           /\ GetFileData(d)) =>
              LET first == FirstRegistered(d)
              IN  /\ panelState[first] = "live" /\ panelDoc[first] = d
                  /\ outbox'[first] =
                         Append(outbox[first],
                                Message("getFileData", _requestId, 0, <<>>, Undefined))
                  /\ \A w \in Views \ {first} : outbox'[w] = outbox[w]
                  /\ _requestId' = _requestId + 1
                  /\ _callbacks' = _callbacks \cup {_requestId}
                  /\ Len(promises') = Len(promises) + 1]_vars

\* C16 witness: two live panels are registered for one document and the only
\* request posted went to the one registered first.
C16_Witness ==
    \E d \in Docs, v, w \in Views :
        /\ v # w
        /\ webviews = <<[resource |-> d, webviewPanel |-> v],
                        [resource |-> d, webviewPanel |-> w]>>
        /\ outbox[v] = <<Message("getFileData", 1, 0, <<>>, Undefined)>>
        /\ outbox[w] = <<>>
        /\ _requestId = 2

\* C17: resolveCustomEditor registers the panel for the document and posts
\* nothing.  An init is posted to a panel only in the step that receives `ready`
\* from that panel or in the resumption of a load started by that panel, and a
\* load is started for a panel only in the step that receives `open-anyways`
\* from it; a panel not yet attached has no message and no load.
C17_AttachSendsNothing ==
    [][\A v \in Views :
          /\ \A d \in Docs :
                (panelState[v] = "none" /\ ResolveCustomEditor(d, v)) =>
                    /\ outbox' = outbox /\ loading' = loading
                    /\ outbox'[v] = <<>> /\ loading'[v] = 0
                    /\ panelState'[v] = "live"
                    /\ Last(webviews') = [resource |-> d, webviewPanel |-> v]
          /\ (/\ Len(outbox'[v]) > Len(outbox[v])
              /\ Last(outbox'[v]).type = "init") =>
                    \/ RecvReady(v)
                    \/ loading[v] > 0 /\ OpenAnywaysResume(v)
          /\ loading'[v] > loading[v] => RecvOpenAnyways(v)
          /\ panelState'[v] = "none" => outbox'[v] = <<>> /\ loading'[v] = 0]_vars

\* C17 witness: one panel is attached and has been posted nothing, while a
\* second panel of the same document has sent `ready` and been posted init.
C17_Witness ==
    \E v, w \in Views :
        /\ panelState[v] = "live" /\ panelState[w] = "live"
        /\ panelDoc[v] = panelDoc[w]
        /\ outbox[v] = <<>> /\ loading[v] = 0
        /\ Len(outbox[w]) = 1 /\ outbox[w][1].type = "init"
        /\ Last(webviews).webviewPanel = v

\* C18: outstanding requests block nothing.  Whatever _callbacks holds, every
\* live panel can deliver edit, and ready and open-anyways while the record of
\* posted messages has room; a further getFileData can be made while ids are
\* left; a panel can be attached to any open document.  A further getFileData
\* takes an id no entry has, adds a pending entry for it and leaves the other
\* entries as they are.
C18_RequestsNeverBlock ==
    /\ [](\A v \in Views :
             /\ panelState[v] = "live" =>
                   /\ \A payload \in Payloads : ENABLED RecvEdit(v, payload)
                   /\ Room => /\ ENABLED RecvReady(v)
                              /\ ENABLED RecvOpenAnyways(v)
                              /\ _requestId <= MaxRequests =>
                                     ENABLED GetFileData(panelDoc[v])
             /\ panelState[v] = "none" =>
                   \A d \in documents :
                       ~disposed[d] => ENABLED ResolveCustomEditor(d, v))
    /\ [][\A d \in Docs :
             (_requestId' # _requestId /\ GetFileData(d)) =>
                 /\ _requestId \notin _callbacks
                 /\ _callbacks' = _callbacks \cup {_requestId}
                 /\ promises'[_requestId] = Pending
                 /\ \A id \in _callbacks : promises'[id] = promises[id]]_vars

\* C18 witness: a panel was posted request 1 and then, with that request still
\* pending, sent `ready` and was posted init.
C18_Witness ==
    \E v \in Views :
        /\ Len(outbox[v]) = 2
        /\ outbox[v][1].type = "getFileData" /\ outbox[v][1].requestId = 1
        /\ outbox[v][2].type = "init"
        /\ 1 \in _callbacks /\ promises[1] = Pending

\* C19: no init is posted to a panel that has been disposed, not even by the
\* resumption of a load the panel started before it was disposed.
C19_NoInitAfterDispose ==
    [][\A v \in Views :
          (/\ panelState[v] = "disposed"
           /\ Len(outbox'[v]) > Len(outbox[v]))
              => Last(outbox'[v]).type # "init"]_vars

\* C20: every init posted to a panel, by the ready handler or by the
\* open-anyways handler, has fileSize = the filesize of the panel's document, and
\* when it carries html its value has exactly fileSize bytes.
C20_InitConsistent ==
    \A v \in Views :
        \A i \in 1..Len(outbox[v]) :
            LET m == outbox[v][i]
            IN  m.type = "init" =>
                    /\ m.fileSize = filesize[panelDoc[v]]
                    /\ HasHtml(m) => Len(m.value) = m.fileSize

\* C20 witness: of two panels of one document larger than the threshold, one
\* sent `ready` and got an init without html for the partial content, the other
\* sent `open-anyways` and got an init with html for the whole content.
C20_Witness ==
    \E v, w \in Views :
        /\ v # w /\ panelDoc[v] = panelDoc[w]
        /\ Len(outbox[v]) = 1 /\ outbox[v][1].type = "init"
        /\ ~HasHtml(outbox[v][1])
        /\ Len(outbox[v][1].value) < outbox[v][1].fileSize
        /\ Len(outbox[w]) = 1 /\ outbox[w][1].type = "init"
        /\ HasHtml(outbox[w][1])
        /\ Len(outbox[w][1].value) = filesize[panelDoc[w]]

====
